---- MODULE Spec2Model ----
(***************************************************************************)
(* The Pomodoro countdown of studox (PomodoroTimer.tsx): its React state,  *)
(* the snapshot it keeps in localStorage, the study_sessions rows it       *)
(* inserts and updates, and the asynchronous handlers whose continuations  *)
(* run after the remote call resolves.                                     *)
(*                                                                         *)
(* One action is one synchronous run of JavaScript (a click handler up to  *)
(* its first await, an interval callback, the continuation of an await):   *)
(* React 18 batches the state updates of such a run into one render, and   *)
(* the persist effect of that render writes the snapshot.                  *)
(*                                                                         *)
(* A remote call acts on the study_sessions rows when it is sent, and      *)
(* whether it succeeds is chosen then; what stays pending is the awaiting  *)
(* handler's continuation, with the values its closure captured. Responses *)
(* arrive in any order. After an unmount the continuations set no state.   *)
(* The interval callback may run at any moment while the interval is       *)
(* registered; it reads the clock, which advances by the amounts in Steps. *)
(***************************************************************************)
EXTENDS Integers, Sequences, FiniteSets, TLC

VARIABLES
  mounted,     \* the PomodoroTimer component is mounted
  seconds,     \* useState(FOCUS_TIME)
  isActive,    \* useState(false)
  isFocus,     \* useState(true)
  sessionId,   \* useState<string | null>(null)
  endTime,     \* useState<number | null>(null)
  tickEnv,     \* what the interval callback's handleTimerComplete closed over
  storage,     \* localStorage[STORAGE_KEY]
  now,         \* Date.now(), epoch milliseconds
  user,        \* useAuth().user is set
  pending,     \* awaited remote calls, each with its handler's closure
  sessions,    \* the study_sessions rows, by id
  advances,    \* how often the clock has been advanced (bounded)
  events,      \* how many clicks, mounts and unmounts have happened (bounded)
  discarded,   \* history: session ids dropped by resetTimer
  lastOp,      \* history: the last handler or continuation that ran
  swMounted,         \* the StopwatchTimer component is mounted
  elapsedSeconds,    \* StopwatchTimer: useState(0)
  swIsActive,        \* StopwatchTimer: its isActive, useState(false)
  stopwatchHistory,  \* localStorage[STOPWATCH_HISTORY_KEY], parsed
  swLeft,            \* history: the stopwatch as its last unmount found it
  swLastOp           \* history: the last stopwatch handler that ran

\* The variables of the stopwatch, and those of the Pomodoro timer; the clock,
\* the two counters and localStorage (storage, stopwatchHistory) are shared.
swVars == <<swMounted, elapsedSeconds, swIsActive, swLeft, swLastOp>>

pomodoroVars == <<mounted, seconds, isActive, isFocus, sessionId, endTime,
                  tickEnv, user, pending, sessions, discarded, lastOp>>

vars == <<mounted, seconds, isActive, isFocus, sessionId, endTime, tickEnv,
          storage, now, user, pending, sessions, advances, events, discarded,
          lastOp, swVars, stopwatchHistory>>

(***************************************************************************)
(* Bounds of the model.                                                    *)
(***************************************************************************)
T0 == 1000
MaxAdvances == 2
MaxEvents == 4
Steps == {500, 90000, 1500000}
MaxElapsed == 3
MaxEndOffset == 8
DeriveHorizon == 3000

(***************************************************************************)
(* Program constants and pure helpers.                                     *)
(***************************************************************************)
STORAGE_KEY == "studox_pomodoro_state"

\* A variant in which the stopwatch stores its history under the key of the
\* Pomodoro snapshot.
STOPWATCH_HISTORY_KEY_Shared == "studox_pomodoro_state"

STOPWATCH_HISTORY_KEY == "studox_stopwatch_history"

FOCUS_TIME == 25 * 60
BREAK_TIME == 5 * 60
NoSession == 0
NoEnd == 0

Max(a, b) == IF a >= b THEN a ELSE b

\* Math.round(n / d) for d > 0: the nearest integer, halves rounded up.
MathRound(n, d) == (2 * n + d) \div (2 * d)

\* A variant without the clamp at 0.
DeriveRemaining_Unclamped(end, t) == MathRound(end - t, 1000)

\* Math.max(0, Math.round((endTime - Date.now()) / 1000))
DeriveRemaining(end, t) == Max(0, MathRound(end - t, 1000))

\* isFocus ? FOCUS_TIME : BREAK_TIME
BaseDuration(focus) == IF focus THEN FOCUS_TIME ELSE BREAK_TIME

\* A variant that rounds the minutes down.
ElapsedMinutes_Floor(focus, secs) ==
  Max(1, (BaseDuration(focus) - secs) \div 60)

\* Math.max(1, Math.round(elapsedSeconds / 60))
ElapsedMinutes(focus, secs) == Max(1, MathRound(BaseDuration(focus) - secs, 60))

\* A variant that restarts every interval at the phase's full duration.
NewEnd_FullDuration(t, secs, focus) == t + BaseDuration(focus) * 1000

\* Date.now() + seconds * 1000 || baseDuration * 1000
NewEnd(t, secs, focus) ==
  IF t + secs * 1000 # 0 THEN t + secs * 1000 ELSE BaseDuration(focus) * 1000

\* The state of a freshly constructed component.
Defaults ==
  [seconds |-> FOCUS_TIME, isActive |-> FALSE, isFocus |-> TRUE,
   sessionId |-> NoSession, endTime |-> NoEnd]

Current ==
  [seconds |-> seconds, isActive |-> isActive, isFocus |-> isFocus,
   sessionId |-> sessionId, endTime |-> endTime]

\* JSON.stringify(payload) as localStorage keeps it.
Payload(st) ==
  [tag |-> "json", isActive |-> st.isActive, isFocus |-> st.isFocus,
   endTime |-> st.endTime, secondsRemaining |-> st.seconds,
   sessionId |-> st.sessionId]

Absent == [tag |-> "absent"]

\* Stored text that JSON.parse rejects, or the text null, whose fields cannot
\* be read: both throw inside the try block of the restore effect.
Malformed == [tag |-> "malformed"]

\* The stored text {}: an object with none of the snapshot's fields.
EmptyObject == [tag |-> "empty"]

\* A stored snapshot that says running but has no end time.
InvalidResume ==
  [tag |-> "json", isActive |-> TRUE, isFocus |-> FALSE, endTime |-> NoEnd,
   secondsRemaining |-> 210, sessionId |-> NoSession]

\* The snapshot of a break paused at 03:30 by a timer without a session.
PausedSnapshot ==
  [tag |-> "json", isActive |-> FALSE, isFocus |-> FALSE, endTime |-> NoEnd,
   secondsRemaining |-> 210, sessionId |-> NoSession]

\* What the storage slot may hold when the page is opened.
StoredValues == {Absent, Malformed, EmptyObject, InvalidResume, PausedSnapshot}

\* A variant that resumes a running snapshot with the stored seconds instead
\* of the time left until its end time.
Restore_StoredSeconds(raw, t) ==
  IF raw.tag # "json" THEN Defaults
  ELSE [isActive |-> raw.isActive /\ raw.endTime # NoEnd,
        isFocus |-> raw.isFocus, sessionId |-> raw.sessionId,
        endTime |-> IF raw.isActive THEN raw.endTime ELSE NoEnd,
        seconds |-> IF raw.secondsRemaining # 0 THEN raw.secondsRemaining
                    ELSE BaseDuration(raw.isFocus)]

\* A variant that restores every snapshot stopped at the full duration of its
\* phase, ignoring the stored seconds.
Restore_FullDuration(raw, t) ==
  IF raw.tag # "json" THEN Defaults
  ELSE [isActive |-> FALSE, isFocus |-> raw.isFocus,
        sessionId |-> raw.sessionId, endTime |-> NoEnd,
        seconds |-> BaseDuration(raw.isFocus)]

\* The restore effect: the state it sets from the stored value at time t.
Restore(raw, t) ==
  IF raw.tag \in {"absent", "malformed"} THEN Defaults
  ELSE IF raw.tag = "empty"
  THEN \* every field reads undefined: the else branch runs with a falsy
       \* isFocus (base is BREAK_TIME) and undefined || base for the seconds;
       \* isFocus and sessionId are only ever tested for truthiness, so the
       \* undefined they are set to is kept as false and as no session.
       [isActive |-> FALSE, isFocus |-> FALSE, sessionId |-> NoSession,
        endTime |-> NoEnd, seconds |-> BREAK_TIME]
  ELSE LET base == BaseDuration(raw.isFocus)
           remaining == DeriveRemaining(raw.endTime, t)
       IN IF raw.isActive /\ raw.endTime # NoEnd
          THEN [isActive |-> remaining > 0, isFocus |-> raw.isFocus,
                sessionId |-> raw.sessionId,
                endTime |-> IF remaining > 0 THEN raw.endTime ELSE NoEnd,
                seconds |-> IF remaining > 0 THEN remaining ELSE base]
          ELSE [isActive |-> FALSE, isFocus |-> raw.isFocus,
                sessionId |-> raw.sessionId, endTime |-> NoEnd,
                seconds |-> IF raw.secondsRemaining # 0
                            THEN raw.secondsRemaining ELSE base]

NoInterval == [sessionId |-> NoSession, isFocus |-> TRUE]

\* The tick effect of a render: it re-registers the interval, closing over the
\* render's state, only when isActive or endTime changed.
TickEffect(st) ==
  IF ~(st.isActive /\ st.endTime # NoEnd) THEN NoInterval
  ELSE IF st.isActive # isActive \/ st.endTime # endTime
       THEN [sessionId |-> st.sessionId, isFocus |-> st.isFocus]
       ELSE tickEnv

\* localStorage.setItem(key, value), as the two slots see it.
SetItem(key, value) ==
  /\ storage' = IF key = STORAGE_KEY THEN value ELSE storage
  /\ stopwatchHistory' =
       IF key = STOPWATCH_HISTORY_KEY THEN value ELSE stopwatchHistory

NoWrite == UNCHANGED <<storage, stopwatchHistory>>

\* The persist effect of a render: it writes when a dependency changed.
PersistEffect(st) ==
  IF st # Current THEN SetItem(STORAGE_KEY, Payload(st)) ELSE NoWrite

\* One render with the batched state updates applied, and its effects.
Commit(st) ==
  /\ seconds' = st.seconds
  /\ isActive' = st.isActive
  /\ isFocus' = st.isFocus
  /\ sessionId' = st.sessionId
  /\ endTime' = st.endTime
  /\ tickEnv' = TickEffect(st)
  /\ PersistEffect(st)

NoRender ==
  UNCHANGED <<seconds, isActive, isFocus, sessionId, endTime, tickEnv, storage,
              stopwatchHistory>>

\* An awaited remote call: the handler that awaits it, what its closure holds
\* of isFocus and seconds, the session id the call is about (for an insert, the
\* id of the new row, or NoSession when the insert failed), and the
\* duration_minutes it sends (0 when it sends none).
Request(kind, focus, secs, sid, mins) ==
  [kind |-> kind, isFocus |-> focus, seconds |-> secs, sessionId |-> sid,
   minutes |-> mins]

RemoveAt(s, i) == [j \in 1..(Len(s) - 1) |-> IF j < i THEN s[j] ELSE s[j + 1]]

\* supabase.from("study_sessions").insert(...): the new row, when it succeeds.
InsertRow(ok, focus) ==
  IF ok
  THEN Append(sessions, [session_type |-> IF focus THEN "focus" ELSE "break",
                         duration_minutes |-> IF focus THEN 25 ELSE 5,
                         completed |-> FALSE, closes |-> 0])
  ELSE sessions

\* A variant of the completion's update that also writes the minutes elapsed
\* on the display, as the update of End session does.
CompleteRow_WritesElapsed(ok, sid) ==
  [sessions EXCEPT ![sid].closes = @ + 1,
                   ![sid].completed = IF ok THEN TRUE ELSE @,
                   ![sid].duration_minutes =
                      IF ok THEN Max(1, MathRound(BaseDuration(isFocus) - seconds, 60))
                      ELSE @]

\* The update of handleTimerComplete on row sid: completed, completed_at.
CompleteRow(ok, sid) ==
  [sessions EXCEPT ![sid].closes = @ + 1,
                   ![sid].completed = IF ok THEN TRUE ELSE @]

\* The update of handleEndSession on row sid: completed and duration_minutes.
EndRow(ok, sid, minutes) ==
  [sessions EXCEPT ![sid].closes = @ + 1,
                   ![sid].completed = IF ok THEN TRUE ELSE @,
                   ![sid].duration_minutes = IF ok THEN minutes ELSE @]

\* The stopwatch before its first mount, with no history stored.
StopwatchInit ==
  /\ swMounted = FALSE
  /\ elapsedSeconds = 0
  /\ swIsActive = FALSE
  /\ stopwatchHistory = <<>>
  /\ swLeft = [isActive |-> FALSE, elapsedSeconds |-> 0, at |-> 0]
  /\ swLastOp = "none"

Init ==
  /\ mounted = FALSE
  /\ seconds = Defaults.seconds
  /\ isActive = Defaults.isActive
  /\ isFocus = Defaults.isFocus
  /\ sessionId = Defaults.sessionId
  /\ endTime = Defaults.endTime
  /\ tickEnv = NoInterval
  /\ storage = Absent
  /\ now = T0
  /\ user \in BOOLEAN
  /\ pending = <<>>
  /\ sessions = <<>>
  /\ advances = 0
  /\ events = 0
  /\ discarded = {}
  /\ lastOp = "none"
  /\ StopwatchInit

\* The page is opened with any of the stored values in the slot.
InitStored ==
  /\ mounted = FALSE
  /\ seconds = Defaults.seconds
  /\ isActive = Defaults.isActive
  /\ isFocus = Defaults.isFocus
  /\ sessionId = Defaults.sessionId
  /\ endTime = Defaults.endTime
  /\ tickEnv = NoInterval
  /\ storage \in StoredValues
  /\ now = T0
  /\ user \in BOOLEAN
  /\ pending = <<>>
  /\ sessions = <<>>
  /\ advances = 0
  /\ events = 0
  /\ discarded = {}
  /\ lastOp = "none"
  /\ StopwatchInit

\* A click, a mount or an unmount happens (bounded).
Event == events < MaxEvents /\ events' = events + 1

\* A variant of the mount in which the persist effect runs before the restore
\* effect: the defaults are written first and are what the restore reads.
Mount_PersistFirst ==
  /\ ~mounted /\ Event
  /\ mounted' = TRUE
  /\ LET st == Restore(Payload(Defaults), now)
     IN /\ seconds' = st.seconds
        /\ isActive' = st.isActive
        /\ isFocus' = st.isFocus
        /\ sessionId' = st.sessionId
        /\ endTime' = st.endTime
        /\ tickEnv' = NoInterval
        /\ SetItem(STORAGE_KEY, Payload(st))
  /\ lastOp' = "mount"
  /\ UNCHANGED <<swVars, now, user, pending, sessions, advances, discarded>>

\* The component mounts: first render with the defaults, the restore effect
\* reads the snapshot, the persist effect writes, and the restored state renders.
Mount ==
  /\ ~mounted /\ Event
  /\ mounted' = TRUE
  /\ LET st == Restore(storage, now)
     IN /\ seconds' = st.seconds
        /\ isActive' = st.isActive
        /\ isFocus' = st.isFocus
        /\ sessionId' = st.sessionId
        /\ endTime' = st.endTime
        /\ tickEnv' = IF st.isActive /\ st.endTime # NoEnd
                      THEN [sessionId |-> st.sessionId, isFocus |-> st.isFocus]
                      ELSE NoInterval
        /\ SetItem(STORAGE_KEY, Payload(st))
  /\ lastOp' = "mount"
  /\ UNCHANGED <<swVars, now, user, pending, sessions, advances, discarded>>

\* The component unmounts (navigation, tab switch): its state and interval go,
\* and the continuations of its awaited calls set no state any more.
Unmount ==
  /\ mounted /\ Event
  /\ mounted' = FALSE
  /\ seconds' = Defaults.seconds
  /\ isActive' = Defaults.isActive
  /\ isFocus' = Defaults.isFocus
  /\ sessionId' = Defaults.sessionId
  /\ endTime' = Defaults.endTime
  /\ tickEnv' = NoInterval
  /\ pending' = <<>>
  /\ lastOp' = "unmount"
  /\ NoWrite
  /\ UNCHANGED <<swVars, now, user, sessions, advances, discarded>>

\* Time passes.
Advance ==
  /\ advances < MaxAdvances
  /\ \E d \in Steps : now' = now + d
  /\ advances' = advances + 1
  /\ NoWrite
  /\ UNCHANGED <<swVars, mounted, seconds, isActive, isFocus, sessionId, endTime,
                 tickEnv, user, pending, sessions, events, discarded, lastOp>>

\* handleTimerComplete as the interval callback calls it when remaining === 0,
\* with the closure env of the render that registered the interval. It runs up
\* to its await when the closure holds a session id, and to its end otherwise.
HandleTimerComplete(env) ==
  /\ IF env.sessionId # NoSession
     THEN /\ \E ok \in BOOLEAN : sessions' = CompleteRow(ok, env.sessionId)
          /\ pending' = Append(pending,
                 Request("complete", env.isFocus, 0, env.sessionId, 0))
          /\ Commit([Current EXCEPT !.seconds = 0, !.isActive = FALSE,
                                    !.endTime = NoEnd])
          /\ lastOp' = "complete"
     ELSE /\ Commit([Current EXCEPT !.isActive = FALSE, !.endTime = NoEnd,
                                    !.isFocus = ~env.isFocus,
                                    !.seconds = IF env.isFocus THEN BREAK_TIME
                                                ELSE FOCUS_TIME])
          /\ lastOp' = "completed"
          /\ UNCHANGED <<pending, sessions>>
  /\ UNCHANGED <<swVars, mounted, now, user, advances, events, discarded>>

\* A variant of the interval callback that shows 0 but never calls
\* handleTimerComplete.
Tick_NeverCompletes ==
  /\ mounted /\ isActive /\ endTime # NoEnd
  /\ Commit([Current EXCEPT !.seconds = DeriveRemaining(endTime, now)])
  /\ lastOp' = "tick"
  /\ UNCHANGED <<swVars, mounted, now, user, pending, sessions, advances,
                 events, discarded>>

\* The interval callback of the tick effect.
Tick ==
  /\ mounted /\ isActive /\ endTime # NoEnd
  /\ LET remaining == DeriveRemaining(endTime, now)
     IN IF remaining # 0
        THEN /\ Commit([Current EXCEPT !.seconds = remaining])
             /\ lastOp' = "tick"
             /\ UNCHANGED <<swVars, mounted, now, user, pending, sessions, advances,
                            events, discarded>>
        ELSE HandleTimerComplete(tickEnv)

\* The continuation of handleTimerComplete after its await: toast, switch mode.
ResolveComplete(i) ==
  /\ pending[i].kind = "complete"
  /\ LET p == pending[i]
     IN Commit([Current EXCEPT !.isFocus = ~p.isFocus,
                               !.seconds = IF p.isFocus THEN BREAK_TIME
                                           ELSE FOCUS_TIME])
  /\ pending' = RemoveAt(pending, i)
  /\ lastOp' = "completed"
  /\ UNCHANGED <<swVars, mounted, now, user, sessions, advances, events, discarded>>

\* A variant that stores the id of the row when the insert is sent, before its
\* continuation has run.
StartWithOpen_OptimisticId ==
  /\ mounted /\ ~isActive /\ sessionId = NoSession /\ user
  /\ Event
  /\ \E ok \in BOOLEAN :
       /\ sessions' = InsertRow(ok, isFocus)
       /\ pending' = Append(pending,
              Request("open", isFocus, seconds,
                      IF ok THEN Len(sessions) + 1 ELSE NoSession,
                      IF isFocus THEN 25 ELSE 5))
       /\ Commit([Current EXCEPT
                    !.sessionId = IF ok THEN Len(sessions) + 1 ELSE NoSession])
  /\ lastOp' = "open"
  /\ UNCHANGED <<swVars, mounted, now, user, advances, discarded>>

\* toggleTimer clicked while stopped, without a session id, by a signed-in
\* user: the insert is sent and the handler awaits it.
StartWithOpen ==
  /\ mounted /\ ~isActive /\ sessionId = NoSession /\ user
  /\ Event
  /\ \E ok \in BOOLEAN :
       /\ sessions' = InsertRow(ok, isFocus)
       /\ pending' = Append(pending,
              Request("open", isFocus, seconds,
                      IF ok THEN Len(sessions) + 1 ELSE NoSession,
                      IF isFocus THEN 25 ELSE 5))
  /\ lastOp' = "open"
  /\ NoRender
  /\ UNCHANGED <<swVars, mounted, now, user, advances, discarded>>

\* A variant whose continuation starts the timer only when the insert gave an id.
ResolveOpen_RequiresSession(i) ==
  /\ pending[i].kind = "open"
  /\ LET p == pending[i]
     IN IF p.sessionId # NoSession
        THEN Commit([Current EXCEPT
                       !.sessionId = p.sessionId,
                       !.endTime = NewEnd(now, p.seconds, p.isFocus),
                       !.isActive = TRUE])
        ELSE Commit(Current)
  /\ pending' = RemoveAt(pending, i)
  /\ lastOp' = "start"
  /\ UNCHANGED <<swVars, mounted, now, user, sessions, advances, events, discarded>>

\* The continuation of toggleTimer after the insert: the id is kept when the
\* insert succeeded, and the closure's isActive is false, so the timer starts.
ResolveOpen(i) ==
  /\ pending[i].kind = "open"
  /\ LET p == pending[i]
     IN Commit([Current EXCEPT
                  !.sessionId = IF p.sessionId # NoSession THEN p.sessionId ELSE @,
                  !.endTime = NewEnd(now, p.seconds, p.isFocus),
                  !.isActive = TRUE])
  /\ pending' = RemoveAt(pending, i)
  /\ lastOp' = "start"
  /\ UNCHANGED <<swVars, mounted, now, user, sessions, advances, events, discarded>>

\* toggleTimer clicked while stopped with nothing to insert: it starts at once.
StartLocal ==
  /\ mounted /\ ~isActive /\ ~(sessionId = NoSession /\ user)
  /\ Event
  /\ Commit([Current EXCEPT !.endTime = NewEnd(now, seconds, isFocus),
                            !.isActive = TRUE])
  /\ lastOp' = "start"
  /\ UNCHANGED <<swVars, mounted, now, user, pending, sessions, advances, discarded>>

\* A variant of pause that ends the session as End session does.
Pause_ClosesSession ==
  /\ mounted /\ isActive
  /\ Event
  /\ Commit([Current EXCEPT !.isActive = FALSE, !.endTime = NoEnd,
                            !.sessionId = NoSession])
  /\ sessions' = IF sessionId # NoSession
                 THEN EndRow(TRUE, sessionId, ElapsedMinutes(isFocus, seconds))
                 ELSE sessions
  /\ lastOp' = "pause"
  /\ UNCHANGED <<swVars, mounted, now, user, pending, advances, discarded>>

\* A variant of pause that stops the interval but keeps its end time.
Pause_KeepsEndTime ==
  /\ mounted /\ isActive
  /\ Event
  /\ Commit([Current EXCEPT !.isActive = FALSE])
  /\ lastOp' = "pause"
  /\ UNCHANGED <<swVars, mounted, now, user, pending, sessions, advances, discarded>>

\* toggleTimer clicked while running: pause.
Pause ==
  /\ mounted /\ isActive
  /\ Event
  /\ Commit([Current EXCEPT !.isActive = FALSE, !.endTime = NoEnd])
  /\ lastOp' = "pause"
  /\ UNCHANGED <<swVars, mounted, now, user, pending, sessions, advances, discarded>>

ToggleTimer == StartWithOpen \/ StartLocal \/ Pause

\* A variant that forgets to clear the session id.
ResetTimer_KeepsSession ==
  /\ mounted
  /\ Event
  /\ Commit([Current EXCEPT !.isActive = FALSE, !.endTime = NoEnd,
                            !.seconds = BaseDuration(isFocus)])
  /\ discarded' = discarded \cup ({sessionId} \ {NoSession})
  /\ lastOp' = "reset"
  /\ UNCHANGED <<swVars, mounted, now, user, pending, sessions, advances>>

ResetTimer ==
  /\ mounted
  /\ Event
  /\ Commit([Current EXCEPT !.isActive = FALSE, !.endTime = NoEnd,
                            !.seconds = BaseDuration(isFocus),
                            !.sessionId = NoSession])
  /\ discarded' = discarded \cup ({sessionId} \ {NoSession})
  /\ lastOp' = "reset"
  /\ UNCHANGED <<swVars, mounted, now, user, pending, sessions, advances>>

\* handleEndSession clicked: without a session id it resets locally; with one
\* it sends the update with the elapsed minutes and awaits it.
HandleEndSession ==
  /\ mounted
  /\ Event
  /\ IF sessionId = NoSession
     THEN /\ Commit([Current EXCEPT !.isActive = FALSE, !.endTime = NoEnd,
                                    !.seconds = BaseDuration(isFocus)])
          /\ lastOp' = "ended"
          /\ UNCHANGED <<pending, sessions>>
     ELSE /\ \E ok \in BOOLEAN :
               sessions' = EndRow(ok, sessionId, ElapsedMinutes(isFocus, seconds))
          /\ pending' = Append(pending,
                 Request("end", isFocus, 0, sessionId,
                         ElapsedMinutes(isFocus, seconds)))
          /\ lastOp' = "end"
          /\ NoRender
  /\ UNCHANGED <<swVars, mounted, now, user, advances, discarded>>

\* The finally block of handleEndSession, after the awaited update.
ResolveEnd(i) ==
  /\ pending[i].kind = "end"
  /\ LET p == pending[i]
     IN Commit([Current EXCEPT !.isActive = FALSE, !.endTime = NoEnd,
                               !.sessionId = NoSession,
                               !.seconds = BaseDuration(p.isFocus)])
  /\ pending' = RemoveAt(pending, i)
  /\ lastOp' = "ended"
  /\ UNCHANGED <<swVars, mounted, now, user, sessions, advances, events, discarded>>

\* An awaited remote call resolves (or rejects) and its handler continues.
Resolve ==
  \E i \in 1..Len(pending) :
    ResolveOpen(i) \/ ResolveComplete(i) \/ ResolveEnd(i)

Next ==
  \/ Mount
  \/ Unmount
  \/ Advance
  \/ Tick
  \/ ToggleTimer
  \/ ResetTimer
  \/ HandleEndSession
  \/ Resolve

Spec == Init /\ [][Next]_vars

\* The same program, opened over whatever the storage slot holds.
SpecStored == InitStored /\ [][Next]_vars

(***************************************************************************)
(* The derivation of the seconds left, on its own: an end time, and a clock *)
(* that is read again and again, up to and far past the end time.          *)
(***************************************************************************)
DeriveEnds == {T0 + 250 * k : k \in 0..MaxEndOffset}

DeriveSteps == {1, 499, 1000}

\* A countdown is running towards one of the end times; the seconds shown are
\* those derived when it was last read.
InitDerive ==
  /\ mounted = TRUE
  /\ isActive = TRUE
  /\ isFocus = TRUE
  /\ sessionId = NoSession
  /\ endTime \in DeriveEnds
  /\ now \in {T0, T0 + 1}
  /\ seconds = DeriveRemaining(endTime, now)
  /\ tickEnv = NoInterval
  /\ storage = Absent
  /\ user = FALSE
  /\ pending = <<>>
  /\ sessions = <<>>
  /\ advances = 0
  /\ events = 0
  /\ discarded = {}
  /\ lastOp = "none"
  /\ StopwatchInit

\* The clock is read again, later: Math.max(0, Math.round((endTime -
\* Date.now()) / 1000)), as the interval callback and the restore effect do.
DeriveLater ==
  /\ \E d \in DeriveSteps :
       /\ now + d <= T0 + DeriveHorizon
       /\ now' = now + d
  /\ seconds' = DeriveRemaining(endTime, now')
  /\ lastOp' = "tick"
  /\ NoWrite
  /\ UNCHANGED <<swVars, mounted, isActive, isFocus, sessionId, endTime,
                 tickEnv, user, pending, sessions, advances, events,
                 discarded>>

NextDerive == DeriveLater

SpecDerive == InitDerive /\ [][NextDerive]_vars

\* The amounts by which the clock advances under a running countdown.
LiveSteps == {1500000}

\* Time passes under a running countdown that has not reached zero yet (what
\* the clock does after that changes nothing the timer reads).
Elapse ==
  /\ mounted /\ isActive /\ endTime # NoEnd
  /\ DeriveRemaining(endTime, now) > 0
  /\ \E d \in LiveSteps : now' = now + d
  /\ NoWrite
  /\ UNCHANGED <<swVars, mounted, seconds, isActive, isFocus, sessionId,
                 endTime, tickEnv, user, pending, sessions, advances,
                 events, discarded, lastOp>>

NextLive ==
  \/ Mount
  \/ Unmount
  \/ Elapse
  \/ Tick
  \/ ToggleTimer
  \/ ResetTimer
  \/ HandleEndSession
  \/ Resolve

\* The program with a clock that keeps advancing, an interval that keeps
\* firing while it is registered, and remote calls that all resolve.
SpecLive ==
  /\ Init /\ [][NextLive]_vars
  /\ WF_vars(Elapse) /\ WF_vars(Tick) /\ WF_vars(Resolve)

(***************************************************************************)
(* The stopwatch (StopwatchTimer.tsx): elapsed seconds and isActive in      *)
(* component state only, and the list of ended sessions in localStorage.   *)
(* Its interval callback adds one to the elapsed seconds each time it      *)
(* fires; it does not read the clock.                                      *)
(***************************************************************************)

\* A variant of the mount that picks the stopwatch up where the unmount left
\* it, adding the seconds that passed on the clock.
StopwatchMount_Resumes ==
  /\ ~swMounted /\ Event
  /\ swMounted' = TRUE
  /\ swIsActive' = swLeft.isActive
  /\ elapsedSeconds' = IF swLeft.isActive
                       THEN swLeft.elapsedSeconds + (now - swLeft.at) \div 1000
                       ELSE swLeft.elapsedSeconds
  /\ swLastOp' = "mount"
  /\ NoWrite
  /\ UNCHANGED <<swLeft, pomodoroVars, now, advances>>

\* StopwatchTimer mounts: useState(0), useState(false); it reads no storage.
StopwatchMount ==
  /\ ~swMounted /\ Event
  /\ swMounted' = TRUE
  /\ elapsedSeconds' = 0
  /\ swIsActive' = FALSE
  /\ swLastOp' = "mount"
  /\ NoWrite
  /\ UNCHANGED <<swLeft, pomodoroVars, now, advances>>

\* StopwatchTimer unmounts (the other tab is chosen, or the page is left): the
\* interval is cleared and the component state is gone.
StopwatchUnmount ==
  /\ swMounted /\ Event
  /\ swMounted' = FALSE
  /\ elapsedSeconds' = 0
  /\ swIsActive' = FALSE
  /\ swLeft' = [isActive |-> swIsActive, elapsedSeconds |-> elapsedSeconds,
                at |-> now]
  /\ swLastOp' = "unmount"
  /\ NoWrite
  /\ UNCHANGED <<pomodoroVars, now, advances>>

\* The interval callback of the stopwatch: one more second.
StopwatchTick ==
  /\ swMounted /\ swIsActive
  /\ elapsedSeconds < MaxElapsed
  /\ elapsedSeconds' = elapsedSeconds + 1
  /\ swLastOp' = "tick"
  /\ NoWrite
  /\ UNCHANGED <<swMounted, swIsActive, swLeft, pomodoroVars,
                 now, advances, events>>

\* toggle: start or pause.
Toggle ==
  /\ swMounted /\ Event
  /\ swIsActive' = ~swIsActive
  /\ swLastOp' = "toggle"
  /\ NoWrite
  /\ UNCHANGED <<swMounted, elapsedSeconds, swLeft, pomodoroVars, now,
                 advances>>

\* reset: stopped at zero.
Reset ==
  /\ swMounted /\ Event
  /\ swIsActive' = FALSE
  /\ elapsedSeconds' = 0
  /\ swLastOp' = "reset"
  /\ NoWrite
  /\ UNCHANGED <<swMounted, swLeft, pomodoroVars, now,
                 advances>>

\* The entry endSession appends to the stored history at time t.
HistoryEntry(t, elapsed) ==
  [id |-> t, durationSeconds |-> elapsed, startedAt |-> t - elapsed * 1000,
   endedAt |-> t]

\* A variant of endSession that stores the new entry alone.
EndSession_Overwrites ==
  /\ swMounted /\ Event
  /\ IF elapsedSeconds <= 0 THEN NoWrite
     ELSE SetItem(STOPWATCH_HISTORY_KEY, <<HistoryEntry(now, elapsedSeconds)>>)
  /\ swIsActive' = FALSE
  /\ elapsedSeconds' = 0
  /\ swLastOp' = "end"
  /\ UNCHANGED <<swMounted, swLeft, pomodoroVars, now, advances>>

\* endSession: with nothing elapsed it only resets; else it appends the entry
\* to the stored history and resets.
EndSession ==
  /\ swMounted /\ Event
  /\ IF elapsedSeconds <= 0 THEN NoWrite
     ELSE SetItem(STOPWATCH_HISTORY_KEY,
                  Append(stopwatchHistory, HistoryEntry(now, elapsedSeconds)))
  /\ swIsActive' = FALSE
  /\ elapsedSeconds' = 0
  /\ swLastOp' = "end"
  /\ UNCHANGED <<swMounted, swLeft, pomodoroVars, now, advances>>

NextStopwatch ==
  \/ StopwatchMount
  \/ StopwatchUnmount
  \/ StopwatchTick
  \/ Toggle
  \/ Reset
  \/ EndSession
  \/ Advance

\* What the history slot may hold when the page is opened: nothing, or the
\* entry of a session ended earlier.
StoredHistories == {<<>>, <<HistoryEntry(T0 - 1, 2)>>}

\* The page is opened with the stopwatch not yet mounted.
InitStopwatch ==
  /\ mounted = FALSE
  /\ seconds = Defaults.seconds
  /\ isActive = Defaults.isActive
  /\ isFocus = Defaults.isFocus
  /\ sessionId = Defaults.sessionId
  /\ endTime = Defaults.endTime
  /\ tickEnv = NoInterval
  /\ storage = Absent
  /\ now = T0
  /\ user \in BOOLEAN
  /\ pending = <<>>
  /\ sessions = <<>>
  /\ advances = 0
  /\ events = 0
  /\ discarded = {}
  /\ lastOp = "none"
  /\ swMounted = FALSE
  /\ elapsedSeconds = 0
  /\ swIsActive = FALSE
  /\ stopwatchHistory \in StoredHistories
  /\ swLeft = [isActive |-> FALSE, elapsedSeconds |-> 0, at |-> 0]
  /\ swLastOp = "none"

\* The stopwatch tab on its own.
SpecStopwatch == InitStopwatch /\ [][NextStopwatch]_vars

\* A handler, callback or continuation of the Pomodoro timer runs.
PomodoroStep ==
  \/ Mount
  \/ Unmount
  \/ Tick
  \/ ToggleTimer
  \/ ResetTimer
  \/ HandleEndSession
  \/ Resolve

\* A handler or callback of the stopwatch runs.
StopwatchStep ==
  \/ StopwatchMount
  \/ StopwatchUnmount
  \/ StopwatchTick
  \/ Toggle
  \/ Reset
  \/ EndSession

NextBoth == PomodoroStep \/ StopwatchStep \/ Advance

\* The page with both tabs, over the one localStorage.
SpecBoth == InitStopwatch /\ [][NextBoth]_vars

TypeOK ==
  /\ mounted \in BOOLEAN /\ isActive \in BOOLEAN /\ isFocus \in BOOLEAN
  /\ seconds \in Int /\ endTime \in Nat /\ sessionId \in Nat

(***************************************************************************)
(* Claims.                                                                 *)
(***************************************************************************)

\* The step in which handleTimerComplete runs to its end: in the interval
\* callback itself when it awaits nothing, else in its continuation.
CompleteEnds ==
  \/ Tick /\ lastOp' = "completed"
  \/ \E i \in 1..Len(pending) : ResolveComplete(i)

\* C1: after a countdown has completed naturally, sessionId is null, so that the
\* next start by a signed-in user opens a new session.
C1_SessionClearedByComplete ==
  (mounted /\ lastOp = "completed") => sessionId = NoSession

\* C2: the close (the update that sets completed) is issued at most once for
\* each opened session id.
C2_CloseAtMostOnce ==
  \A id \in DOMAIN sessions : sessions[id].closes <= 1

\* The stored snapshot says running, with an end time.
StoredRunning ==
  storage.tag = "json" /\ storage.isActive /\ storage.endTime # NoEnd

\* C3: mounting with a running snapshot whose end time is at or before now
\* applies complete(): not running, the phase switched to the opposite of the
\* snapshot's, and the snapshot's session closed.
C3_ResumeElapsedCompletes ==
  [][(Mount /\ StoredRunning /\ storage.endTime <= now)
       => /\ ~isActive'
          /\ isFocus' = ~storage.isFocus
          /\ storage.sessionId # NoSession
               => /\ sessions'[storage.sessionId].completed
                  /\ sessions'[storage.sessionId].closes
                       > sessions[storage.sessionId].closes]_vars

\* C4: unmounting the running timer leaves its snapshot in storage, and mounting
\* with a running snapshot whose rounded remaining time is positive re-enters
\* Running with the snapshot's end time, phase and session id and with
\* remaining = round((endTime - now) / 1000), halves rounded up.
C4_ResumeRunning ==
  [][/\ (Unmount /\ isActive /\ endTime # NoEnd)
          => storage' = Payload(Current)
     /\ (Mount /\ StoredRunning /\ 2 * (storage.endTime - now) >= 1000)
          => /\ isActive'
             /\ endTime' = storage.endTime
             /\ isFocus' = storage.isFocus
             /\ sessionId' = storage.sessionId
             /\ seconds' > 0
             /\ 2000 * seconds' <= 2 * (storage.endTime - now) + 1000
             /\ 2 * (storage.endTime - now) + 1000 < 2000 * seconds' + 2000]_vars

\* C4 witness: the timer resumed a recorded interval on mount, half a second
\* off a whole number of seconds, after time had passed.
C4_Witness ==
  /\ mounted /\ lastOp = "mount" /\ isActive /\ sessionId # NoSession
  /\ (endTime - now) % 1000 = 500
  /\ seconds < BaseDuration(isFocus)

\* C5: of two Start clicks with no other handler between them, the second one
\* issues no insert.
C5_NoSecondOpen ==
  [][StartWithOpen => lastOp # "open"]_vars

\* C6: reset and End session leave the local state not running in the very
\* step that issues (or would issue) the recorder call.
C6_LocalTransitionFirst ==
  [][(ResetTimer \/ HandleEndSession) => ~isActive']_vars

\* C7: a Start click from Idle or Paused puts the timer into Running whether or
\* not the insert has resolved.
C7_StartNotGatedByOpen ==
  [][(StartWithOpen \/ StartLocal) => (isActive' /\ endTime' # NoEnd)]_vars

\* The request that the step has just appended.
Sent == pending'[Len(pending')]

\* C8: End session with an open session sends
\* max(1, floor(elapsedSeconds / 60)) minutes.
C8_EndEarlyFloorMinutes ==
  [][(HandleEndSession /\ sessionId # NoSession)
       => Sent.minutes = Max(1, (BaseDuration(isFocus) - seconds) \div 60)]_vars

\* C8 as amended: End session with an open session sends
\* max(1, round(elapsedSeconds / 60)) minutes, halves rounded up, and a
\* successful update stores that number in the session's row.
C8_EndEarlyRoundedMinutes ==
  [][(HandleEndSession /\ sessionId # NoSession)
       => LET e == BaseDuration(isFocus) - seconds
              m == Sent.minutes
          IN /\ Sent.kind = "end" /\ Sent.sessionId = sessionId
             /\ \/ m = 1 /\ 2 * e + 60 < 240
                \/ m >= 1 /\ 120 * m <= 2 * e + 60 /\ 2 * e + 60 < 120 * m + 120
             /\ sessions'[sessionId].duration_minutes
                  \in {m, sessions[sessionId].duration_minutes}]_vars

\* C8 witness: End session was clicked 90 s into an interval, the update went
\* through, and 2 minutes (1.5 rounded up) are in the session's row.
C8_Witness ==
  /\ lastOp = "end" /\ sessionId # NoSession
  /\ BaseDuration(isFocus) - seconds = 90
  /\ pending[Len(pending)].minutes = 2
  /\ sessions[sessionId].duration_minutes = 2

\* C9: complete() ends with the timer not running, the end time cleared, the
\* phase toggled and the seconds at the new phase's full duration.
C9_CompleteSwitchesPhase ==
  [][CompleteEnds
       => /\ ~isActive' /\ endTime' = NoEnd
          /\ isFocus' = ~isFocus
          /\ seconds' = IF isFocus THEN BREAK_TIME ELSE FOCUS_TIME]_vars

\* C10: reset leaves the timer not running, the end time cleared, the seconds at
\* the current phase's full duration and no session id, sends nothing, and
\* the session it dropped is never closed afterwards.
C10_ResetDiscards ==
  [][/\ ResetTimer
          => /\ ~isActive' /\ endTime' = NoEnd /\ sessionId' = NoSession
             /\ isFocus' = isFocus /\ seconds' = BaseDuration(isFocus)
             /\ sessions' = sessions /\ pending' = pending
     /\ \A id \in discarded : sessions'[id].closes = sessions[id].closes]_vars

\* C10 witness: a reset dropped an open session, and later an interval ran to
\* its end.
C10_Witness ==
  /\ discarded # {} /\ lastOp = "completed"
  /\ \A id \in discarded : sessions[id].closes = 0

\* C11: pause sends nothing and leaves sessionId, the phase and the seconds as
\* they are; it only sets isActive to false and clears the end time.
C11_PauseFrame ==
  [][Pause
       => /\ sessions' = sessions /\ pending' = pending
          /\ sessionId' = sessionId /\ isFocus' = isFocus /\ seconds' = seconds
          /\ ~isActive' /\ endTime' = NoEnd
          /\ storage' = Payload([Current EXCEPT !.isActive = FALSE,
                                                !.endTime = NoEnd])]_vars

\* C11 witness: a recorded interval was paused after it had counted down.
C11_Witness ==
  /\ lastOp = "pause" /\ sessionId # NoSession
  /\ seconds < BaseDuration(isFocus)
  /\ sessions[sessionId].closes = 0

\* The step in which a Start click puts the timer into Running with nothing
\* else having run since the click: at once, or in the continuation of the
\* insert that the last click sent.
StartTakesEffect ==
  \/ StartLocal
  \/ lastOp = "open" /\ ResolveOpen(Len(pending))

\* C12: a start from the stopped timer (so also the resume after a pause)
\* keeps the seconds shown and sets the end time to now + seconds * 1000, so
\* that the time derived from it at the same instant is the seconds shown.
C12_ResumeKeepsRemaining ==
  [][StartTakesEffect
       => /\ isActive'
          /\ seconds' = seconds
          /\ endTime' = now + seconds * 1000]_vars

\* C12 witness: start, time passed, a tick, pause, and the timer is running
\* again with the paused seconds, which are not a full duration.
C12_Witness ==
  /\ lastOp = "start" /\ isActive /\ events = 4
  /\ seconds \notin {0, FOCUS_TIME, BREAK_TIME}
  /\ endTime = now + seconds * 1000

ClosedByStep ==
  {id \in DOMAIN sessions : sessions'[id].closes > sessions[id].closes}

\* The ids of the inserts whose continuation has not run yet.
OpenPending ==
  {pending[i].sessionId : i \in {j \in 1..Len(pending) : pending[j].kind = "open"}}

\* C14: an update is sent only for a session id that the component holds (in
\* its state or in the running interval's closure) and whose insert has
\* resolved; End session clicked while no id is held yet, the insert still
\* being awaited, sends nothing.
C14_CloseOnlyResolvedSession ==
  [][/\ \A id \in ClosedByStep :
          /\ id \in {sessionId, tickEnv.sessionId}
          /\ id \notin OpenPending
     /\ (HandleEndSession /\ sessionId = NoSession)
          => sessions' = sessions /\ pending' = pending]_vars

\* C14 witness: End session was clicked with the insert still awaited, and the
\* row of that insert has no update.
C14_Witness ==
  /\ lastOp = "ended" /\ OpenPending # {} /\ NoSession \notin OpenPending
  /\ \A id \in OpenPending : sessions[id].closes = 0

\* The step in which handleEndSession runs to its end: the click itself when
\* no session id is held, else the finally block after the awaited update.
EndEnds ==
  \/ HandleEndSession /\ sessionId = NoSession
  \/ \E i \in 1..Len(pending) : ResolveEnd(i)

\* C15: End session always ends with the timer stopped, the end time cleared,
\* no session id and the full duration of the current phase on the display,
\* and it sends an update only when a session id was held.
C15_EndEarlyResets ==
  [][/\ EndEnds
          => /\ ~isActive' /\ endTime' = NoEnd
             /\ sessionId' = NoSession
             /\ seconds' = BaseDuration(isFocus')
     /\ (HandleEndSession /\ sessionId = NoSession)
          => sessions' = sessions /\ pending' = pending]_vars

\* The stored value is a snapshot object.
StoredSnapshot == storage.tag = "json"

\* The state of the component is that of a fresh one.
Fresh(st) == st = Defaults

\* C16: mounting over a snapshot that says running but has no end time starts
\* fresh: stopped, focus, 1500 s, no session, whatever its other fields hold.
C16_InvalidResumeStartsFresh ==
  [][(Mount /\ StoredSnapshot /\ storage.isActive /\ storage.endTime = NoEnd)
       => Fresh([seconds |-> seconds', isActive |-> isActive',
                 isFocus |-> isFocus', sessionId |-> sessionId',
                 endTime |-> endTime'])]_vars

\* C17: mounting over an absent key, unparseable text or a value without the
\* snapshot's fields leaves the timer in its default state.
C17_MalformedIsNoSnapshot ==
  [][(Mount /\ storage.tag \in {"absent", "malformed", "empty"})
       => /\ ~isActive' /\ endTime' = NoEnd
          /\ isFocus' /\ seconds' = FOCUS_TIME
          /\ sessionId' = NoSession]_vars

C20_ActiveIffEndTime ==
  /\ mounted => (isActive <=> endTime # NoEnd)
  /\ StoredSnapshot => (storage.isActive <=> storage.endTime # NoEnd)

\* C20 witness: a started timer, four events into the run, is running with an
\* end time, and so is the snapshot it wrote.
C20_Witness ==
  /\ mounted /\ lastOp = "start" /\ events = 4
  /\ isActive /\ endTime # NoEnd
  /\ StoredSnapshot /\ storage.isActive /\ storage.endTime = endTime

\* C19: a stopwatch unmounted while running is, when mounted again, still
\* running, its elapsed seconds those at the unmount plus the seconds that
\* passed on the clock since.
C19_StopwatchSurvivesUnmount ==
  [][(StopwatchMount /\ swLeft.isActive)
       => /\ swIsActive'
          /\ elapsedSeconds'
               = swLeft.elapsedSeconds + (now - swLeft.at) \div 1000]_vars

\* C19 as the code has it: the stopwatch keeps its state in memory only, so a
\* mount always finds it stopped at zero; unmount and mount leave the stored
\* history of ended sessions as it is.
C19_StopwatchStartsAtZero ==
  [][/\ StopwatchMount
          => /\ ~swIsActive' /\ elapsedSeconds' = 0
             /\ stopwatchHistory' = stopwatchHistory
     /\ StopwatchUnmount => stopwatchHistory' = stopwatchHistory]_vars

\* C19 witness: the stopwatch was unmounted while running with seconds on it,
\* time passed, and it has been mounted again.
C19_Witness ==
  /\ swMounted /\ swLastOp = "mount"
  /\ swLeft.isActive /\ swLeft.elapsedSeconds > 0
  /\ now > swLeft.at

\* The mounted timer is running and no End session click is still awaiting
\* its update.
RunningQuietly ==
  /\ mounted /\ isActive
  /\ \A i \in 1..Len(pending) : pending[i].kind # "end"

\* The last thing that happened is one of the user actions open under a
\* running timer: pause, reset, End session, leaving the page.
Interrupted == lastOp \in {"pause", "reset", "end", "ended", "unmount"}

\* The interval callback has reached zero and called handleTimerComplete.
CompleteTriggered == ~isActive /\ lastOp \in {"complete", "completed"}

PlannedMinutes(type) == IF type = "focus" THEN 25 ELSE 5

\* The interval callback reaches zero with a session id in its closure.
CompletesRecorded ==
  Tick /\ DeriveRemaining(endTime, now) = 0 /\ tickEnv.sessionId # NoSession

C23_EndSessionAppendsEntry ==
  [][EndSession
       => /\ ~swIsActive' /\ elapsedSeconds' = 0
          /\ elapsedSeconds = 0 => stopwatchHistory' = stopwatchHistory
          /\ elapsedSeconds > 0
               => /\ Len(stopwatchHistory') = Len(stopwatchHistory) + 1
                  /\ \A i \in 1..Len(stopwatchHistory) :
                       stopwatchHistory'[i] = stopwatchHistory[i]
                  /\ stopwatchHistory'[Len(stopwatchHistory')].durationSeconds
                       = elapsedSeconds]_vars

\* C23 witness: a session of the stopwatch was ended with seconds on it, after
\* an earlier entry, and the stopwatch is stopped at 0.
C23_Witness ==
  /\ swLastOp = "end" /\ ~swIsActive /\ elapsedSeconds = 0
  /\ Len(stopwatchHistory) = 2
  /\ stopwatchHistory[2].durationSeconds = MaxElapsed

\* C24: no operation of the Pomodoro timer changes what is stored under the
\* stopwatch's key, and no operation of the stopwatch changes what is stored
\* under the Pomodoro timer's key.
C24_SeparateStorageSlots ==
  [][/\ PomodoroStep => stopwatchHistory' = stopwatchHistory
     /\ StopwatchStep => storage' = storage]_vars

\* C24 witness: both timers have written: the Pomodoro timer its snapshot,
\* the stopwatch an ended session.
C24_Witness ==
  /\ StoredSnapshot /\ storage = Payload(Defaults)
  /\ stopwatchHistory # <<>>
  /\ stopwatchHistory[Len(stopwatchHistory)].id >= T0

\* C25: the seconds derived from an end time are never negative, however far
\* the clock is past it, and a later reading of the clock never gives more
\* seconds than an earlier one.
C25_DerivedRemainingMonotone ==
  [][/\ seconds >= 0 /\ seconds' >= 0
     /\ now' >= now => seconds' <= seconds]_vars

\* C25 witness: the clock is read more than a second past the end time, after
\* a reading before it, and 0 seconds are left.
C25_Witness ==
  /\ lastOp = "tick" /\ now > endTime + 1000 /\ seconds = 0
  /\ endTime > T0 + 1000

\* C26: in every state of the mounted timer, whatever is still awaited, the
\* seconds shown are between 0 and the full duration of the current phase.
C26_SecondsWithinPhase ==
  mounted => (0 <= seconds /\ seconds <= BaseDuration(isFocus))

\* C27: whenever End session writes elapsed minutes to a row, the row's type
\* (set when it was inserted) is the phase the timer is in.
C27_EndWritesRowOfCurrentPhase ==
  [][(HandleEndSession /\ sessionId # NoSession)
       => sessions[sessionId].session_type
            = (IF isFocus THEN "focus" ELSE "break")]_vars

\* C28: from the state a reset leaves, and until Start is clicked again, the
\* mounted timer stays stopped with no session id, whatever is still awaited.
C28_ResetStaysIdle ==
  [][(mounted /\ lastOp = "reset" /\ ~ToggleTimer /\ mounted')
       => ~isActive' /\ sessionId' = NoSession]_vars

\* A step of start, pause, reset or End session, or of their continuations.
UserOperationStep ==
  \/ ToggleTimer
  \/ ResetTimer
  \/ HandleEndSession
  \/ \E i \in 1..Len(pending) : ResolveOpen(i) \/ ResolveEnd(i)

\* C29: start, pause, reset and End session leave the phase as it is, and the
\* completion of an interval toggles it.
C29_PhaseChangesOnlyByCompletion ==
  [][/\ UserOperationStep => isFocus' = isFocus
     /\ CompleteEnds => isFocus' = ~isFocus]_vars

\* C29, the part about start, pause, reset and End session alone.
C29_UserOperationsKeepPhase ==
  [][UserOperationStep => isFocus' = isFocus]_vars

\* The stored snapshot can be resumed now: it is running and its end time is
\* at least half a second away.
Resumable == StoredRunning /\ 2 * (storage.endTime - now) >= 1000

\* C30: while the timer is mounted (every render's effects having run), the
\* stored snapshot holds the component's state; and a mount over a resumable
\* snapshot reads it before anything is written, so the snapshot stays a
\* running one with its end time, phase and session id.
C30_StoredSnapshotIsState ==
  /\ [](mounted =>
          storage = [tag |-> "json", isActive |-> isActive,
                     isFocus |-> isFocus, endTime |-> endTime,
                     secondsRemaining |-> seconds, sessionId |-> sessionId])
  /\ [][(Mount /\ Resumable)
          => /\ storage'.isActive /\ storage'.endTime = storage.endTime
             /\ storage'.isFocus = storage.isFocus
             /\ storage'.sessionId = storage.sessionId
             /\ isActive' /\ endTime' = storage.endTime]_vars

\* C30 witness: the timer was mounted again over the snapshot of a running
\* countdown that had a session, and it runs.
C30_Witness ==
  /\ lastOp = "mount" /\ events >= 3
  /\ isActive /\ sessionId # NoSession
  /\ storage.isActive /\ storage.endTime = endTime

====
